---- MODULE Spec2Model ----
(***************************************************************************)
(* Model of the DDB-System client (GUI/gui.py): the DatabaseGUI object,    *)
(* its Tk event handlers, the command-execution worker threads started by  *)
(* execute(), and the node status checker thread.                          *)
(*                                                                         *)
(* Every Python string that is parsed, prefix-tested, concatenated or      *)
(* serialised is a sequence of one-character strings, so json.loads,       *)
(* json.dumps and str.startswith are computed character by character.      *)
(***************************************************************************)
EXTENDS Integers, Sequences, FiniteSets, TLC

----------------------------------------------------------------------------
(* String literals of gui.py, as character sequences.                      *)

\* Operation names: the radio button values (lines 100, 102).
CREATE_DB == <<"C", "R", "E", "A", "T", "E", "_", "D", "B">>
CREATE_TABLE == <<"C", "R", "E", "A", "T", "E", "_", "T", "A", "B", "L", "E">>
INSERT == <<"I", "N", "S", "E", "R", "T">>
UPDATE == <<"U", "P", "D", "A", "T", "E">>
DELETE == <<"D", "E", "L", "E", "T", "E">>
SEARCH == <<"S", "E", "A", "R", "C", "H">>
DROP_DB == <<"D", "R", "O", "P", "_", "D", "B">>

\* Keys of the op dictionary (lines 261-267).
KeyType == <<"T", "y", "p", "e">>
KeyDatabase == <<"D", "a", "t", "a", "b", "a", "s", "e">>
KeyTable == <<"T", "a", "b", "l", "e">>
KeyData == <<"D", "a", "t", "a">>
KeyCondition == <<"C", "o", "n", "d", "i", "t", "i", "o", "n">>

\* Example values update_fields inserts into the entries (lines 176-250).
DefaultDb == <<"m", "y", "d", "b">>
DefaultTable == <<"u", "s", "e", "r", "s">>
DefaultColumns == <<"{", "\"", "i", "d", "\"", ":", " ", "\"", "i", "n", "t", "\"", ",", " ", "\"", "n", "a", "m", "e", "\"", ":", " ", "\"", "s", "t", "r", "i", "n", "g", "\"", "}">>
DefaultRow == <<"{", "\"", "i", "d", "\"", ":", " ", "1", ",", " ", "\"", "n", "a", "m", "e", "\"", ":", " ", "\"", "A", "l", "i", "c", "e", "\"", "}">>
DefaultValues == <<"{", "\"", "n", "a", "m", "e", "\"", ":", " ", "\"", "A", "l", "i", "c", "i", "a", "\"", "}">>
DefaultCond == <<"{", "\"", "i", "d", "\"", ":", " ", "1", "}">>

\* The text substituted for an empty data or condition entry (lines 269, 271).
EmptyObjText == <<"{", "}">>

\* Status line texts (lines 255, 275, 290, 293, 297, 299, 302).
StProcessing == <<"P", "r", "o", "c", "e", "s", "s", "i", "n", "g", ".", ".", ".">>
StInvalidJson == <<"E", "r", "r", "o", "r", ":", " ", "I", "n", "v", "a", "l", "i", "d", " ", "J", "S", "O", "N">>
StSearchDone == <<"S", "E", "A", "R", "C", "H", " ", "c", "o", "m", "p", "l", "e", "t", "e", "d">>
StSearchBad == <<"E", "r", "r", "o", "r", ":", " ", "I", "n", "v", "a", "l", "i", "d", " ", "S", "E", "A", "R", "C", "H", " ", "r", "e", "s", "p", "o", "n", "s", "e">>
StOpFailed == <<"O", "p", "e", "r", "a", "t", "i", "o", "n", " ", "f", "a", "i", "l", "e", "d">>
StOperation == <<"O", "p", "e", "r", "a", "t", "i", "o", "n", " ">>
StCompleted == <<" ", "c", "o", "m", "p", "l", "e", "t", "e", "d">>
StError == <<"E", "r", "r", "o", "r", ":", " ">>

\* The prefix tested by data.startswith (line 296).
ErrorPrefix == <<"E", "r", "r", "o", "r">>

\* Message box texts (lines 274, 301).
DlgInvalidJson == <<"I", "n", "v", "a", "l", "i", "d", " ", "J", "S", "O", "N", ":", " ">>
DlgFailed == <<"F", "a", "i", "l", "e", "d", " ", "t", "o", " ", "e", "x", "e", "c", "u", "t", "e", " ", "o", "p", "e", "r", "a", "t", "i", "o", "n", ":", " ">>

\* Node status label texts (lines 81, 150, 153).
LblChecking == <<"C", "h", "e", "c", "k", "i", "n", "g", ".", ".", ".">>
LblConnected == <<"C", "o", "n", "n", "e", "c", "t", "e", "d">>
LblDisconnected == <<"D", "i", "s", "c", "o", "n", "n", "e", "c", "t", "e", "d">>

----------------------------------------------------------------------------
(* Python values produced by json.loads and consumed by json.dumps.        *)
(* k is the Python type: NoneType, bool, int, str, list, dict.             *)
(* A dict is the sequence of its items in insertion order.                 *)

JNull == [k |-> "null"]
JBool(b) == [k |-> "bool", b |-> b]
JNum(n) == [k |-> "num", n |-> n]
JStr(s) == [k |-> "str", s |-> s]
JArr(e) == [k |-> "arr", e |-> e]
JObj(m) == [k |-> "obj", m |-> m]

IsDigit(c) == c \in {"0", "1", "2", "3", "4", "5", "6", "7", "8", "9"}

DigitVal(c) ==
  CASE c = "0" -> 0 [] c = "1" -> 1 [] c = "2" -> 2 [] c = "3" -> 3 [] c = "4" -> 4
    [] c = "5" -> 5 [] c = "6" -> 6 [] c = "7" -> 7 [] c = "8" -> 8 [] c = "9" -> 9

DigitChar(d) ==
  CASE d = 0 -> "0" [] d = 1 -> "1" [] d = 2 -> "2" [] d = 3 -> "3" [] d = 4 -> "4"
    [] d = 5 -> "5" [] d = 6 -> "6" [] d = 7 -> "7" [] d = 8 -> "8" [] d = 9 -> "9"

\* Result of a scanning step: the value and the index after it, or a failure
\* (json.JSONDecodeError).
ScanFail(i) == [ok |-> FALSE, v |-> JNull, n |-> i]
ScanOk(v, n) == [ok |-> TRUE, v |-> v, n |-> n]

\* The text t holds the word w at index i.
HasAt(t, i, w) == i + Len(w) - 1 <= Len(t) /\ SubSeq(t, i, i + Len(w) - 1) = w

\* json whitespace: skipped before and after a value and around separators.
RECURSIVE SkipWs(_, _)
SkipWs(t, i) ==
  IF i <= Len(t) /\ t[i] \in {" ", "\t", "\n", "\r"} THEN SkipWs(t, i + 1) ELSE i

\* The characters of a string literal from index i (after the opening quote)
\* up to the closing quote; \" and \\ are the escapes handled.
RECURSIVE ScanString(_, _, _)
ScanString(t, i, acc) ==
  IF i > Len(t) THEN ScanFail(i)
  ELSE IF t[i] = "\"" THEN ScanOk(JStr(acc), i + 1)
  ELSE IF t[i] = "\\"
    THEN IF i + 1 <= Len(t) /\ t[i + 1] \in {"\"", "\\"}
           THEN ScanString(t, i + 2, Append(acc, t[i + 1]))
           ELSE ScanFail(i)
  ELSE IF t[i] \in {"\t", "\n", "\r"} THEN ScanFail(i)
  ELSE ScanString(t, i + 1, Append(acc, t[i]))

\* A non-negative integer literal: 0, or a digit 1-9 followed by digits.
RECURSIVE ScanDigits(_, _, _)
ScanDigits(t, i, acc) ==
  IF i <= Len(t) /\ IsDigit(t[i])
    THEN ScanDigits(t, i + 1, acc * 10 + DigitVal(t[i]))
    ELSE ScanOk(JNum(acc), i)

ScanNumber(t, i) == IF t[i] = "0" THEN ScanOk(JNum(0), i + 1) ELSE ScanDigits(t, i, 0)

\* dict[key] = val: a repeated key keeps its place and takes the last value.
PutItem(m, key, val) ==
  IF \E j \in 1..Len(m) : m[j].key = key
    THEN [j \in 1..Len(m) |-> IF m[j].key = key THEN [key |-> key, val |-> val] ELSE m[j]]
    ELSE Append(m, [key |-> key, val |-> val])

RECURSIVE ScanValue(_, _), ScanMembers(_, _, _), ScanElements(_, _, _)

\* One JSON value starting at index i.
ScanValue(t, i) ==
  IF i > Len(t) THEN ScanFail(i)
  ELSE IF t[i] = "\"" THEN ScanString(t, i + 1, <<>>)
  ELSE IF t[i] = "{"
    THEN LET j == SkipWs(t, i + 1)
         IN  IF j <= Len(t) /\ t[j] = "}" THEN ScanOk(JObj(<<>>), j + 1)
             ELSE ScanMembers(t, j, <<>>)
  ELSE IF t[i] = "["
    THEN LET j == SkipWs(t, i + 1)
         IN  IF j <= Len(t) /\ t[j] = "]" THEN ScanOk(JArr(<<>>), j + 1)
             ELSE ScanElements(t, j, <<>>)
  ELSE IF HasAt(t, i, <<"n", "u", "l", "l">>) THEN ScanOk(JNull, i + 4)
  ELSE IF HasAt(t, i, <<"t", "r", "u", "e">>) THEN ScanOk(JBool(TRUE), i + 4)
  ELSE IF HasAt(t, i, <<"f", "a", "l", "s", "e">>) THEN ScanOk(JBool(FALSE), i + 5)
  ELSE IF IsDigit(t[i]) THEN ScanNumber(t, i)
  ELSE ScanFail(i)

\* The members of an object from index i (at a key), up to the closing brace.
ScanMembers(t, i, acc) ==
  IF i > Len(t) \/ t[i] # "\"" THEN ScanFail(i)
  ELSE LET key == ScanString(t, i + 1, <<>>)
           c == SkipWs(t, key.n)
       IN  IF ~key.ok \/ c > Len(t) \/ t[c] # ":" THEN ScanFail(c)
           ELSE LET val == ScanValue(t, SkipWs(t, c + 1))
                    e == SkipWs(t, val.n)
                    items == PutItem(acc, key.v.s, val.v)
                IN  IF ~val.ok \/ e > Len(t) THEN ScanFail(e)
                    ELSE IF t[e] = "}" THEN ScanOk(JObj(items), e + 1)
                    ELSE IF t[e] = "," THEN ScanMembers(t, SkipWs(t, e + 1), items)
                    ELSE ScanFail(e)

\* The elements of an array from index i, up to the closing bracket.
ScanElements(t, i, acc) ==
  LET val == ScanValue(t, i)
      e == SkipWs(t, val.n)
  IN  IF ~val.ok \/ e > Len(t) THEN ScanFail(e)
      ELSE IF t[e] = "]" THEN ScanOk(JArr(Append(acc, val.v)), e + 1)
      ELSE IF t[e] = "," THEN ScanElements(t, SkipWs(t, e + 1), Append(acc, val.v))
      ELSE ScanFail(e)

\* json.loads(t): ok is FALSE where Python raises json.JSONDecodeError (no
\* value at the start, or extra data after the value).
JsonLoads(t) ==
  LET r == ScanValue(t, SkipWs(t, 1))
  IN  IF r.ok /\ SkipWs(t, r.n) = Len(t) + 1
        THEN [ok |-> TRUE, v |-> r.v]
        ELSE [ok |-> FALSE, v |-> JNull]

\* A string as json.dumps writes it: quoted, with " and \ escaped.
RECURSIVE EscapeChars(_)
EscapeChars(s) ==
  IF s = <<>> THEN <<>>
  ELSE (IF Head(s) \in {"\"", "\\"} THEN <<"\\", Head(s)>> ELSE <<Head(s)>>)
         \o EscapeChars(Tail(s))

DumpsStr(s) == <<"\"">> \o EscapeChars(s) \o <<"\"">>

\* The decimal digits of a natural number.
RECURSIVE NatText(_)
NatText(n) == IF n < 10 THEN <<DigitChar(n)>> ELSE Append(NatText(n \div 10), DigitChar(n % 10))

RECURSIVE Spaces(_)
Spaces(n) == IF n = 0 THEN <<>> ELSE <<" ">> \o Spaces(n - 1)

RECURSIVE JsonDumps(_, _, _), DumpsSeq(_, _, _, _, _)

\* json.dumps(v, indent=indent) at nesting depth level; indent = -1 stands
\* for indent=None (items separated by ", " on one line), otherwise items are
\* separated by "," and each starts on a new line, indent * depth spaces in.
JsonDumps(v, indent, level) ==
  CASE v.k = "null" -> <<"n", "u", "l", "l">>
    [] v.k = "bool" -> IF v.b THEN <<"t", "r", "u", "e">> ELSE <<"f", "a", "l", "s", "e">>
    [] v.k = "num" -> NatText(v.n)
    [] v.k = "str" -> DumpsStr(v.s)
    [] v.k = "arr" ->
         IF v.e = <<>> THEN <<"[", "]">>
         ELSE <<"[">> \o DumpsSeq(v.e, FALSE, indent, level + 1, 1)
                \o (IF indent < 0 THEN <<>> ELSE <<"\n">> \o Spaces(indent * level))
                \o <<"]">>
    [] v.k = "obj" ->
         IF v.m = <<>> THEN <<"{", "}">>
         ELSE <<"{">> \o DumpsSeq(v.m, TRUE, indent, level + 1, 1)
                \o (IF indent < 0 THEN <<>> ELSE <<"\n">> \o Spaces(indent * level))
                \o <<"}">>

\* Items j.. of a list (or of a dict when keyed), each preceded by its
\* separator and line start.
DumpsSeq(items, keyed, indent, level, j) ==
  IF j > Len(items) THEN <<>>
  ELSE (IF indent < 0
          THEN (IF j = 1 THEN <<>> ELSE <<",", " ">>)
          ELSE (IF j = 1 THEN <<>> ELSE <<",">>) \o <<"\n">> \o Spaces(indent * level))
       \o (IF keyed
             THEN DumpsStr(items[j].key) \o <<":", " ">> \o JsonDumps(items[j].val, indent, level)
             ELSE JsonDumps(items[j], indent, level))
       \o DumpsSeq(items, keyed, indent, level, j + 1)

\* str.startswith
StartsWith(s, prefix) == Len(s) >= Len(prefix) /\ SubSeq(s, 1, Len(prefix)) = prefix

----------------------------------------------------------------------------
(* The environment: what the user may type and what the network may do.    *)

\* Texts the user types into a visible data or condition entry instead of
\* the example: nothing, a JSON value that is no object, malformed JSON.
TxtNull == <<"n", "u", "l", "l">>
TxtBrace == <<"{">>
TypedJson == {<<>>, TxtNull, TxtBrace}

\* Response payloads a node returns to recv: nothing (the peer closed the
\* connection), a plain acknowledgement, a server-reported error, rows.
RespOk == <<"O", "K">>
RespError == <<"E", "r", "r", "o", "r", ":", " ", "t", "a", "b", "l", "e", " ", "n", "o", "t", " ", "f", "o", "u", "n", "d">>
RespRows == <<"[", "{", "\"", "i", "d", "\"", ":", " ", "1", ",", " ", "\"", "n", "a", "m", "e", "\"", ":", " ", "\"", "A", "l", "i", "c", "e", "\"", "}", "]">>
Responses == {<<>>, RespOk, RespError, RespRows}

\* str(e) of the socket errors raised by connect, sendall and recv.
ErrRefused == <<"C", "o", "n", "n", "e", "c", "t", "i", "o", "n", " ", "r", "e", "f", "u", "s", "e", "d">>
ErrTimedOut == <<"t", "i", "m", "e", "d", " ", "o", "u", "t">>
ErrReset == <<"C", "o", "n", "n", "e", "c", "t", "i", "o", "n", " ", "r", "e", "s", "e", "t">>
ConnectErrors == {ErrRefused, ErrTimedOut}
SendErrors == {ErrReset}
RecvErrors == {ErrTimedOut, ErrReset}

\* What makes the connect of a probe raise.
ProbeErrors == {"refused", "timed out"}

\* str(e) of the json.JSONDecodeError raised by json.loads.
ErrDecode == <<"E", "x", "p", "e", "c", "t", "i", "n", "g", " ", "v", "a", "l", "u", "e">>

\* Bounds of the exploration: user edits (selections and typing), and
\* callbacks waiting in the Tk event queue that the status checker may add to.
MaxEdits == 2
MaxPending == 2

----------------------------------------------------------------------------
(* State.                                                                  *)

VARIABLES
  node_type,      \* self.node_type: the role selected in the combobox
  node_ip_port,   \* self.node_ip_port: the address shown for that role
  operation,      \* self.operation: the selected radio button
  database,       \* self.database, self.table, self.data, self.condition:
  table,          \*   the contents of the four entries
  data,
  condition,
  operations,     \* the operations the radio buttons of __init__ offer
  packed,         \* the entries currently packed into input_frame
  status,         \* self.status: text and colour of the status label
  result,         \* self.result: contents of the result text widget
  dialog,         \* text of the last error message box shown
  after,          \* callbacks handed to root.after(0, ...), oldest first
  thread,         \* the _execute_operation threads, by start order
  started,        \* number of Execute clicks so far
  sockets,        \* number of sockets the execution threads have created
  edits,          \* number of user edits so far
  running,        \* self.running
  checker,        \* the check_node_status thread
  status_colors,  \* self.status_colors
  status_labels,  \* text and colour of self.status_labels[node]
  stopped_at      \* the node the for loop of the checker was at when cleanup
                  \*   ran (0: cleanup has not run)

guiVars == <<node_type, node_ip_port, operation, database, table, data, condition,
             operations, packed, edits>>
outVars == <<status, result, dialog>>
execVars == <<thread, started, sockets>>
monVars == <<running, checker, status_colors, status_labels, stopped_at>>
vars == <<guiVars, outVars, after, execVars, monVars>>

\* self.node_configs (lines 51-56), and the order a for loop visits it in.
Nodes == <<"Master", "Slave 1", "Slave 2">>

node_configs ==
  [n \in {"Master", "Slave 1", "Slave 2"} |->
     CASE n = "Master" -> "192.168.149.137:8000"
       [] n = "Slave 1" -> "192.168.149.137:8001"
       [] n = "Slave 2" -> "192.168.149.137:8002"]

\* Colours.
Orange == "#FF9800"
Green == "#4CAF50"
Red == "#F44336"

\* The execution threads explored: a first Execute click and a second one.
Threads == {1, 2}

\* The operations list of __init__ (lines 100-102) for the role selected
\* when the radio buttons are built.
OperationsFor(role) ==
  <<CREATE_DB, CREATE_TABLE, INSERT, UPDATE, DELETE, SEARCH>>
    \o (IF role = "Master" THEN <<DROP_DB>> ELSE <<>>)

\* The fields of update_fields with the condition entry of DELETE and SEARCH
\* left out.
FieldsShownNoCondition(op) ==
  IF op \in {CREATE_DB, DROP_DB} THEN {"database"}
  ELSE IF op \in {CREATE_TABLE, INSERT} THEN {"database", "table", "data"}
  ELSE IF op = UPDATE THEN {"database", "table", "data", "condition"}
  ELSE {"database", "table"}

\* update_fields (lines 161-251): the entries packed for operation op, and
\* the text each entry holds afterwards (every entry is emptied, and the
\* packed ones receive their example value).
FieldsShown(op) ==
  CASE op \in {CREATE_DB, DROP_DB} -> {"database"}
    [] op \in {CREATE_TABLE, INSERT} -> {"database", "table", "data"}
    [] op = UPDATE -> {"database", "table", "data", "condition"}
    [] op \in {DELETE, SEARCH} -> {"database", "table", "condition"}
    [] OTHER -> {}

ExampleData(op) ==
  CASE op = CREATE_TABLE -> DefaultColumns
    [] op = INSERT -> DefaultRow
    [] op = UPDATE -> DefaultValues
    [] OTHER -> <<>>

update_fields(op) ==
  /\ packed' = FieldsShown(op)
  /\ database' = IF "database" \in FieldsShown(op) THEN DefaultDb ELSE <<>>
  /\ table' = IF "table" \in FieldsShown(op) THEN DefaultTable ELSE <<>>
  /\ data' = IF "data" \in FieldsShown(op) THEN ExampleData(op) ELSE <<>>
  /\ condition' = IF "condition" \in FieldsShown(op) THEN DefaultCond ELSE <<>>

\* A thread that has not been started: the locals of _execute_operation.
\* e / e_bound: the exception variable of the except clause being run, which
\* Python unbinds when the clause is left; io: the socket calls made so far;
\* waited: the time the pending socket call has blocked; elapsed: the time
\* the socket calls have blocked in all, from the start of connect;
\* shown_status / shown_result: what the thread's own callbacks displayed.
NoText == <<"<", "n", "o", "n", "e", ">">>

NewThread ==
  [pc |-> "idle", addr |-> "",
   op |-> [Type |-> <<>>, Database |-> <<>>, Table |-> <<>>,
           Data |-> JObj(<<>>), Condition |-> JObj(<<>>)],
   data_str |-> NoText, cond_str |-> NoText,
   e |-> <<>>, e_bound |-> FALSE,
   data |-> NoText, s |-> 0, io |-> <<>>,
   waited |-> 0, elapsed |-> 0,
   shown_status |-> NoText, shown_result |-> NoText]

\* The checker thread before its first sweep. outcome: how the probe of
\* each node ended in the current sweep ("none": not probed yet); published:
\* the nodes whose update the current sweep has handed to root.after.
NewChecker ==
  [pc |-> "L142", i |-> 1, sock |-> "none",
   outcome |-> [n \in {"Master", "Slave 1", "Slave 2"} |-> "none"],
   published |-> {}]

\* The state DatabaseGUI.__init__ leaves (lines 35-138).
Init ==
  /\ node_type = "Master"
  /\ node_ip_port = "192.168.149.137:8000"
  /\ operation = CREATE_DB
  /\ operations = OperationsFor("Master")
  /\ packed = FieldsShown(CREATE_DB)
  /\ database = DefaultDb
  /\ table = <<>>
  /\ data = <<>>
  /\ condition = <<>>
  /\ status = [text |-> <<>>, fg |-> Green]
  /\ result = <<>>
  /\ dialog = <<>>
  /\ after = <<>>
  /\ thread = [w \in Threads |-> NewThread]
  /\ started = 0
  /\ sockets = 0
  /\ edits = 0
  /\ running = TRUE
  /\ checker = NewChecker
  /\ status_colors = [n \in DOMAIN node_configs |-> Orange]
  /\ status_labels = [n \in DOMAIN node_configs |-> [text |-> LblChecking, fg |-> Orange]]
  /\ stopped_at = 0

----------------------------------------------------------------------------
(* Handlers run by the Tk main loop. Each runs to completion on the main   *)
(* thread; a Tk variable read by another thread (StringVar.get) and a      *)
(* root.after call are served by the main loop between two handlers, so    *)
(* each is one step of the thread that makes it.                           *)

\* The role is picked and the address entry keeps what it held.
update_node_ip_stale(r) ==
  /\ edits < MaxEdits
  /\ edits' = edits + 1
  /\ node_type' = r
  /\ update_fields(operation)
  /\ UNCHANGED <<node_ip_port, operation, operations, outVars, after, execVars, monVars>>

\* The user picks role r in the combobox: the bound variable takes r and
\* <<ComboboxSelected>> runs update_node_ip (lines 156-159).
update_node_ip(r) ==
  /\ edits < MaxEdits
  /\ edits' = edits + 1
  /\ node_type' = r
  /\ node_ip_port' = node_configs[r]
  /\ update_fields(operation)
  /\ UNCHANGED <<operation, operations, outVars, after, execVars, monVars>>

\* The user picks one of the radio buttons: the bound variable takes its
\* value and the button's command runs update_fields (line 104).
SelectOperation(k) ==
  /\ edits < MaxEdits
  /\ edits' = edits + 1
  /\ operation' = operations[k]
  /\ update_fields(operations[k])
  /\ UNCHANGED <<node_type, node_ip_port, operations, outVars, after, execVars, monVars>>

\* The user replaces the text of a packed data or condition entry. (The
\* database and table entries keep the example names.)
TypeData(t) ==
  /\ edits < MaxEdits /\ "data" \in packed /\ t # data
  /\ edits' = edits + 1
  /\ data' = t
  /\ UNCHANGED <<node_type, node_ip_port, operation, database, table, condition,
                 operations, packed, outVars, after, execVars, monVars>>

TypeCondition(t) ==
  /\ edits < MaxEdits /\ "condition" \in packed /\ t # condition
  /\ edits' = edits + 1
  /\ condition' = t
  /\ UNCHANGED <<node_type, node_ip_port, operation, database, table, data,
                 operations, packed, outVars, after, execVars, monVars>>

\* execute (lines 253-256): the Execute button.
execute ==
  /\ started < Cardinality(Threads)
  /\ started' = started + 1
  /\ status' = [text |-> StProcessing, fg |-> Orange]
  /\ thread' = [thread EXCEPT ![started + 1].pc = "L260"]
  /\ UNCHANGED <<guiVars, result, dialog, after, sockets, monVars>>

\* A callback handed to root.after by the statement at the given line of
\* thread w (w = 0: the checker thread). uses_e: the lambda reads the
\* exception variable e of its enclosing function when it runs.
Callback(w, line, f, text, fg, uses_e, node) ==
  [w |-> w, line |-> line, f |-> f, text |-> text, fg |-> fg, uses_e |-> uses_e,
   node |-> node]

\* The main loop runs the oldest callback. A lambda that reads e after the
\* except clause of its thread has been left raises NameError, which Tk
\* reports without running the rest of the lambda.
RunCallback ==
  /\ after # <<>>
  /\ LET cb == Head(after)
         raises == cb.uses_e /\ ~thread[cb.w].e_bound
         text == IF cb.uses_e THEN cb.text \o thread[cb.w].e ELSE cb.text
     IN  /\ after' = Tail(after)
         /\ dialog' = IF cb.f = "showerror" /\ ~raises THEN text ELSE dialog
         /\ status' = IF cb.f = "status" /\ ~raises
                        THEN [text |-> text, fg |-> cb.fg] ELSE status
         /\ result' = IF raises THEN result
                      ELSE IF cb.f = "result_delete" THEN <<>>
                      ELSE IF cb.f = "result_insert" THEN result \o text
                      ELSE result
         /\ status_labels' =
              IF cb.f = "label"
                THEN [status_labels EXCEPT ![cb.node] = [text |-> text, fg |-> cb.fg]]
                ELSE status_labels
         /\ thread' =
              IF cb.w \in Threads /\ ~raises /\ cb.f \in {"status", "result_insert"}
                THEN IF cb.f = "status"
                       THEN [thread EXCEPT ![cb.w].shown_status = text]
                       ELSE [thread EXCEPT ![cb.w].shown_result = text]
                ELSE thread
  /\ UNCHANGED <<guiVars, started, sockets, running, checker, status_colors, stopped_at>>

----------------------------------------------------------------------------
(* _execute_operation (lines 258-304), one step per statement that reads   *)
(* shared state, calls the socket or hands a callback to the main loop.    *)
(* pc names the line the thread is about to run.                           *)

At(w, line) == thread[w].pc = line

\* A socket call recorded in the thread's io log.
IoEvent(s, ev, addr, ok, bytes) ==
  [s |-> s, ev |-> ev, addr |-> addr, ok |-> ok, bytes |-> bytes]

\* ParseEntry with the decode error swallowed: malformed text counts as {}.
ParseEntryLenient(text) ==
  LET r == JsonLoads(IF text = <<>> THEN EmptyObjText ELSE text)
  IN  IF r.ok THEN r ELSE [ok |-> TRUE, v |-> JObj(<<>>)]

\* Lines 269-272: an empty entry stands for "{}", and the text is parsed.
ParseEntry(text) == JsonLoads(IF text = <<>> THEN EmptyObjText ELSE text)

\* The op dictionary as the value json.dumps serialises (line 283).
OpValue(op) ==
  JObj(<<[key |-> KeyType, val |-> JStr(op.Type)],
         [key |-> KeyDatabase, val |-> JStr(op.Database)],
         [key |-> KeyTable, val |-> JStr(op.Table)],
         [key |-> KeyData, val |-> op.Data],
         [key |-> KeyCondition, val |-> op.Condition]>>)

\* recv(4096): at most this many bytes of what the peer sent.
RecvSize == 4096
Recv(payload) == SubSeq(payload, 1, IF Len(payload) < RecvSize THEN Len(payload) ELSE RecvSize)

\* InterpretSearch with the "Error" prefix test of the other operations
\* applied first.
InterpretSearchByPrefix(resp) ==
  LET r == JsonLoads(resp)
  IN  IF StartsWith(resp, ErrorPrefix)
        THEN [insert |-> resp, line |-> 292, status |-> StOpFailed, fg |-> Red]
      ELSE IF r.ok
        THEN [insert |-> JsonDumps(r.v, 2, 0), line |-> 289,
              status |-> StSearchDone, fg |-> Green]
        ELSE [insert |-> resp, line |-> 292,
              status |-> StSearchBad, fg |-> Red]

\* Lines 286-293: what a SEARCH response puts in the result widget and in
\* the status label.
InterpretSearch(resp) ==
  LET r == JsonLoads(resp)
  IN  IF r.ok
        THEN [insert |-> JsonDumps(r.v, 2, 0), line |-> 289,
              status |-> StSearchDone, fg |-> Green]
        ELSE [insert |-> resp, line |-> 292,
              status |-> StSearchBad, fg |-> Red]

\* InterpretOther with == "Error" in place of startswith("Error").
InterpretOtherExact(type, resp) ==
  IF resp = ErrorPrefix
    THEN [insert |-> resp, line |-> 295, status |-> StOpFailed, fg |-> Red]
    ELSE [insert |-> resp, line |-> 295,
          status |-> StOperation \o type \o StCompleted, fg |-> Green]

\* Lines 294-299: the same for every other operation.
InterpretOther(type, resp) ==
  IF StartsWith(resp, ErrorPrefix)
    THEN [insert |-> resp, line |-> 295, status |-> StOpFailed, fg |-> Red]
    ELSE [insert |-> resp, line |-> 295,
          status |-> StOperation \o type \o StCompleted, fg |-> Green]

Interpret(type, resp) ==
  IF type = SEARCH THEN InterpretSearch(resp) ELSE InterpretOther(type, resp)

\* SocketExit as an explicit close at the end of the block, which an
\* exception skips.
SocketExitLeak(s, io, raised) ==
  IF raised THEN io ELSE Append(io, [s |-> s, ev |-> "close", addr |-> "", ok |-> TRUE,
                                     bytes |-> <<>>])

\* Leaving the with statement of line 279 closes the socket, whether the
\* block ended normally or an exception is propagating.
SocketExit(s, io, raised) == Append(io, IoEvent(s, "close", "", TRUE, <<>>))

\* Line 260.
ReadAddr(w) ==
  /\ At(w, "L260")
  /\ thread' = [thread EXCEPT ![w].addr = node_ip_port, ![w].pc = "L262"]
  /\ UNCHANGED <<guiVars, outVars, after, started, sockets, monVars>>

\* Lines 261-262.
ReadType(w) ==
  /\ At(w, "L262")
  /\ thread' = [thread EXCEPT ![w].op.Type = operation, ![w].pc = "L263"]
  /\ UNCHANGED <<guiVars, outVars, after, started, sockets, monVars>>

\* Line 263.
ReadDatabase(w) ==
  /\ At(w, "L263")
  /\ thread' = [thread EXCEPT ![w].op.Database = database, ![w].pc = "L264"]
  /\ UNCHANGED <<guiVars, outVars, after, started, sockets, monVars>>

\* Lines 264-268.
ReadTable(w) ==
  /\ At(w, "L264")
  /\ thread' = [thread EXCEPT ![w].op.Table = table, ![w].pc = "L269"]
  /\ UNCHANGED <<guiVars, outVars, after, started, sockets, monVars>>

\* Lines 269-270; json.JSONDecodeError enters the except clause of line 273.
ReadData(w) ==
  /\ At(w, "L269")
  /\ LET r == ParseEntry(data)
     IN  thread' =
           IF r.ok
             THEN [thread EXCEPT ![w].data_str = data, ![w].op.Data = r.v,
                                 ![w].pc = "L271"]
             ELSE [thread EXCEPT ![w].data_str = data, ![w].e = ErrDecode,
                                 ![w].e_bound = TRUE, ![w].pc = "L274"]
  /\ UNCHANGED <<guiVars, outVars, after, started, sockets, monVars>>

\* Lines 271-272.
ReadCondition(w) ==
  /\ At(w, "L271")
  /\ LET r == ParseEntry(condition)
     IN  thread' =
           IF r.ok
             THEN [thread EXCEPT ![w].cond_str = condition, ![w].op.Condition = r.v,
                                 ![w].pc = "L279"]
             ELSE [thread EXCEPT ![w].cond_str = condition, ![w].e = ErrDecode,
                                 ![w].e_bound = TRUE, ![w].pc = "L274"]
  /\ UNCHANGED <<guiVars, outVars, after, started, sockets, monVars>>

\* Line 274.
InvalidDialog(w) ==
  /\ At(w, "L274")
  /\ after' = Append(after, Callback(w, 274, "showerror", DlgInvalidJson, "", TRUE, ""))
  /\ thread' = [thread EXCEPT ![w].pc = "L275"]
  /\ UNCHANGED <<guiVars, outVars, started, sockets, monVars>>

\* Line 275.
InvalidStatus(w) ==
  /\ At(w, "L275")
  /\ after' = Append(after, Callback(w, 275, "status", StInvalidJson, Red, FALSE, ""))
  /\ thread' = [thread EXCEPT ![w].pc = "L276"]
  /\ UNCHANGED <<guiVars, outVars, started, sockets, monVars>>

\* Line 276: return leaves the except clause, which unbinds e.
InvalidReturn(w) ==
  /\ At(w, "L276")
  /\ thread' = [thread EXCEPT ![w].e_bound = FALSE, ![w].pc = "done"]
  /\ UNCHANGED <<guiVars, outVars, after, started, sockets, monVars>>

\* Lines 279-281: the socket is created; split and settimeout are local.
OpenSocket(w) ==
  /\ At(w, "L279")
  /\ sockets' = sockets + 1
  /\ thread' = [thread EXCEPT ![w].s = sockets + 1,
                              ![w].io = Append(@, IoEvent(sockets + 1, "socket", "", TRUE, <<>>)),
                              ![w].pc = "L282"]
  /\ UNCHANGED <<guiVars, outVars, after, started, monVars>>

\* settimeout(10), line 281: the longest a socket call of the execution
\* blocks before it raises the timeout error.
SocketTimeout == 10

\* The calls that wait for the peer: connect and recv. (sendall hands a
\* command of a few hundred bytes to the socket buffer and returns.)
Blocked(w) == thread[w].pc \in {"L282", "L284"}

\* The timeout of the pending call runs out: the rest of it passes.
Expire(w) ==
  /\ Blocked(w) /\ thread[w].waited < SocketTimeout
  /\ thread' = [thread EXCEPT
                  ![w].elapsed = @ + (SocketTimeout - thread[w].waited),
                  ![w].waited = SocketTimeout]
  /\ UNCHANGED <<guiVars, outVars, after, started, sockets, monVars>>

\* One unit of time passes while the pending call blocks.
Tick(w) ==
  /\ Blocked(w) /\ thread[w].waited < SocketTimeout
  /\ thread' = [thread EXCEPT ![w].elapsed = @ + 1, ![w].waited = @ + 1]
  /\ UNCHANGED <<guiVars, outVars, after, started, sockets, monVars>>

\* A call that blocked for the whole timeout raises the timeout error and no
\* other call does.
MayRaise(w, err) == (err = ErrTimedOut) <=> (thread[w].waited = SocketTimeout)

\* Line 282: connect succeeds, or raises err.
Connect(w) ==
  /\ At(w, "L282")
  /\ \/ /\ thread[w].waited < SocketTimeout
        /\ thread' = [thread EXCEPT
                        ![w].io = Append(@, IoEvent(thread[w].s, "connect", thread[w].addr, TRUE, <<>>)),
                        ![w].waited = 0, ![w].pc = "L283"]
     \/ \E err \in ConnectErrors :
          /\ MayRaise(w, err)
          /\ thread' = [thread EXCEPT
                          ![w].io = Append(@, IoEvent(thread[w].s, "connect", thread[w].addr, FALSE, <<>>)),
                          ![w].waited = 0, ![w].e = err, ![w].pc = "raise"]
  /\ UNCHANGED <<guiVars, outVars, after, started, sockets, monVars>>

\* Line 283: the serialised op is sent in one sendall, or sendall raises.
Send(w) ==
  /\ At(w, "L283")
  /\ LET bytes == JsonDumps(OpValue(thread[w].op), -1, 0)
     IN  \/ thread' = [thread EXCEPT
                         ![w].io = Append(@, IoEvent(thread[w].s, "send", thread[w].addr, TRUE, bytes)),
                         ![w].pc = "L284"]
         \/ \E err \in SendErrors :
              thread' = [thread EXCEPT
                           ![w].io = Append(@, IoEvent(thread[w].s, "send", thread[w].addr, FALSE, bytes)),
                           ![w].e = err, ![w].pc = "raise"]
  /\ UNCHANGED <<guiVars, outVars, after, started, sockets, monVars>>

\* Line 284 as a loop that reads until the peer has nothing more: recv is
\* called a second time.
ReceiveUntilClosed(w) ==
  /\ At(w, "L284")
  /\ \E payload \in Responses :
       thread' = [thread EXCEPT
                    ![w].io = Append(Append(@, IoEvent(thread[w].s, "recv", thread[w].addr, TRUE,
                                                       Recv(payload))),
                                     IoEvent(thread[w].s, "recv", thread[w].addr, TRUE, <<>>)),
                    ![w].waited = 0, ![w].data = Recv(payload), ![w].pc = "L285"]
  /\ UNCHANGED <<guiVars, outVars, after, started, sockets, monVars>>

\* Line 284: one recv returns what the peer sent (nothing when the peer has
\* closed the connection), or raises.
Receive(w) ==
  /\ At(w, "L284")
  /\ \/ \E payload \in Responses :
          /\ thread[w].waited < SocketTimeout
          /\ thread' = [thread EXCEPT
                          ![w].io = Append(@, IoEvent(thread[w].s, "recv", thread[w].addr, TRUE, Recv(payload))),
                          ![w].waited = 0, ![w].data = Recv(payload), ![w].pc = "L285"]
     \/ \E err \in RecvErrors :
          /\ MayRaise(w, err)
          /\ thread' = [thread EXCEPT
                          ![w].io = Append(@, IoEvent(thread[w].s, "recv", thread[w].addr, FALSE, <<>>)),
                          ![w].waited = 0, ![w].e = err, ![w].pc = "raise"]
  /\ UNCHANGED <<guiVars, outVars, after, started, sockets, monVars>>

\* Line 285.
ClearResult(w) ==
  /\ At(w, "L285")
  /\ after' = Append(after, Callback(w, 285, "result_delete", <<>>, "", FALSE, ""))
  /\ thread' = [thread EXCEPT ![w].pc = "L286"]
  /\ UNCHANGED <<guiVars, outVars, started, sockets, monVars>>

\* Lines 286-289, 291-292, 294-295: the result text is handed over.
ShowResult(w) ==
  /\ At(w, "L286")
  /\ LET out == Interpret(thread[w].op.Type, thread[w].data)
     IN  after' = Append(after, Callback(w, out.line, "result_insert", out.insert, "",
                                         FALSE, ""))
  /\ thread' = [thread EXCEPT ![w].pc = "L290"]
  /\ UNCHANGED <<guiVars, outVars, started, sockets, monVars>>

\* Lines 290, 293, 296-299: the status text is handed over.
ShowStatus(w) ==
  /\ At(w, "L290")
  /\ LET out == Interpret(thread[w].op.Type, thread[w].data)
     IN  after' = Append(after, Callback(w, out.line + 1, "status", out.status, out.fg,
                                         FALSE, ""))
  /\ thread' = [thread EXCEPT ![w].pc = "exit"]
  /\ UNCHANGED <<guiVars, outVars, started, sockets, monVars>>

\* The with block ends normally: the socket is closed and the thread ends.
CloseSocket(w) ==
  /\ At(w, "exit")
  /\ thread' = [thread EXCEPT ![w].io = SocketExit(thread[w].s, @, FALSE), ![w].pc = "done"]
  /\ UNCHANGED <<guiVars, outVars, after, started, sockets, monVars>>

\* An exception leaves the with block: the socket is closed, and the except
\* clause of line 300 binds e.
CloseSocketRaising(w) ==
  /\ At(w, "raise")
  /\ thread' = [thread EXCEPT ![w].io = SocketExit(thread[w].s, @, TRUE), ![w].e_bound = TRUE,
                              ![w].pc = "L301"]
  /\ UNCHANGED <<guiVars, outVars, after, started, sockets, monVars>>

\* Line 301.
FailedDialog(w) ==
  /\ At(w, "L301")
  /\ after' = Append(after, Callback(w, 301, "showerror", DlgFailed, "", TRUE, ""))
  /\ thread' = [thread EXCEPT ![w].pc = "L302"]
  /\ UNCHANGED <<guiVars, outVars, started, sockets, monVars>>

\* Line 302.
FailedStatus(w) ==
  /\ At(w, "L302")
  /\ after' = Append(after, Callback(w, 302, "status", StError, Red, TRUE, ""))
  /\ thread' = [thread EXCEPT ![w].pc = "L303"]
  /\ UNCHANGED <<guiVars, outVars, started, sockets, monVars>>

\* Line 303.
FailedClear(w) ==
  /\ At(w, "L303")
  /\ after' = Append(after, Callback(w, 303, "result_delete", <<>>, "", FALSE, ""))
  /\ thread' = [thread EXCEPT ![w].pc = "L304"]
  /\ UNCHANGED <<guiVars, outVars, started, sockets, monVars>>

\* Line 304.
FailedResult(w) ==
  /\ At(w, "L304")
  /\ after' = Append(after, Callback(w, 304, "result_insert", StError, "", TRUE, ""))
  /\ thread' = [thread EXCEPT ![w].pc = "L305"]
  /\ UNCHANGED <<guiVars, outVars, started, sockets, monVars>>

\* The except clause of line 300 ends: e is unbound and the thread ends.
FailedReturn(w) ==
  /\ At(w, "L305")
  /\ thread' = [thread EXCEPT ![w].e_bound = FALSE, ![w].pc = "done"]
  /\ UNCHANGED <<guiVars, outVars, after, started, sockets, monVars>>

ThreadStep(w) ==
  \/ ReadAddr(w) \/ ReadType(w) \/ ReadDatabase(w) \/ ReadTable(w)
  \/ ReadData(w) \/ ReadCondition(w)
  \/ InvalidDialog(w) \/ InvalidStatus(w) \/ InvalidReturn(w)
  \/ OpenSocket(w) \/ Expire(w) \/ Connect(w) \/ Send(w) \/ Receive(w)
  \/ ClearResult(w) \/ ShowResult(w) \/ ShowStatus(w) \/ CloseSocket(w)
  \/ CloseSocketRaising(w)
  \/ FailedDialog(w) \/ FailedStatus(w) \/ FailedClear(w) \/ FailedResult(w)
  \/ FailedReturn(w)

----------------------------------------------------------------------------
(* check_node_status (lines 140-154), the daemon thread started in         *)
(* __init__ (line 138). checker.i is the position of the for loop in       *)
(* node_configs; checker.sock is the probe socket of the current node.     *)
(* The connect of a probe returns or raises within its 2 second timeout.   *)

CheckerAt(line) == checker.pc = line

\* The next statement after node i has been handled: the next node of the
\* sweep, or the sleep that ends it.
NextNode(i) ==
  IF i < Len(Nodes) THEN [checker EXCEPT !.pc = "L146", !.i = i + 1, !.sock = "closed"]
  ELSE [checker EXCEPT !.pc = "L154", !.i = 1, !.sock = "closed"]

\* Line 142: the while test; the for loop starts at the first node.
TestRunning ==
  /\ CheckerAt("L142")
  /\ checker' = IF running
                  THEN [checker EXCEPT !.pc = "L146", !.i = 1,
                                       !.outcome = [n \in DOMAIN node_configs |-> "none"],
                                       !.published = {}]
                  ELSE [checker EXCEPT !.pc = "done"]
  /\ UNCHANGED <<guiVars, outVars, after, execVars, running, status_colors, status_labels,
                 stopped_at>>

\* Lines 144-148: the probe of node i starts (socket, settimeout, connect).
ProbeStart ==
  /\ CheckerAt("L146")
  /\ checker' = [checker EXCEPT !.pc = "L148", !.sock = "open"]
  /\ UNCHANGED <<guiVars, outVars, after, execVars, running, status_colors, status_labels,
                 stopped_at>>

\* Line 148: connect returns, or raises (refused, timed out, ...).
ProbeEnd ==
  /\ CheckerAt("L148")
  /\ \/ checker' = [checker EXCEPT !.pc = "L149", !.outcome[Nodes[checker.i]] = "ok"]
     \/ \E err \in ProbeErrors :
          checker' = [checker EXCEPT !.pc = "raise", !.outcome[Nodes[checker.i]] = err]
  /\ UNCHANGED <<guiVars, outVars, after, execVars, running, status_colors, status_labels,
                 stopped_at>>

\* Line 149.
MarkConnected ==
  /\ CheckerAt("L149")
  /\ status_colors' = [status_colors EXCEPT ![Nodes[checker.i]] = Green]
  /\ checker' = [checker EXCEPT !.pc = "L150"]
  /\ UNCHANGED <<guiVars, outVars, after, execVars, running, status_labels, stopped_at>>

\* Line 150.
PublishConnected ==
  /\ CheckerAt("L150")
  /\ Len(after) < MaxPending
  /\ after' = Append(after, Callback(0, 150, "label", LblConnected, Green, FALSE,
                                     Nodes[checker.i]))
  /\ checker' = [checker EXCEPT !.pc = "exit", !.published = @ \cup {Nodes[checker.i]}]
  /\ UNCHANGED <<guiVars, outVars, execVars, running, status_colors, status_labels,
                 stopped_at>>

\* The with block of line 146 ends normally: the probe socket is closed and
\* the for loop goes on.
ProbeClose ==
  /\ CheckerAt("exit")
  /\ checker.sock = "open"
  /\ checker' = NextNode(checker.i)
  /\ UNCHANGED <<guiVars, outVars, after, execVars, running, status_colors, status_labels,
                 stopped_at>>

\* An exception leaves the with block and no except clause catches it: the
\* thread ends.
ProbeCloseUncaught ==
  /\ CheckerAt("raise")
  /\ checker' = [checker EXCEPT !.pc = "done", !.sock = "closed"]
  /\ UNCHANGED <<guiVars, outVars, after, execVars, running, status_colors, status_labels,
                 stopped_at>>

\* An exception leaves the with block: the probe socket is closed and the
\* bare except clause of line 151 is entered.
ProbeCloseRaising ==
  /\ CheckerAt("raise")
  /\ checker' = [checker EXCEPT !.pc = "L152", !.sock = "closed"]
  /\ UNCHANGED <<guiVars, outVars, after, execVars, running, status_colors, status_labels,
                 stopped_at>>

\* Line 152 with the colour of lines 79-84.
MarkDisconnectedUnknown ==
  /\ CheckerAt("L152")
  /\ status_colors' = [status_colors EXCEPT ![Nodes[checker.i]] = Orange]
  /\ checker' = [checker EXCEPT !.pc = "L153"]
  /\ UNCHANGED <<guiVars, outVars, after, execVars, running, status_labels, stopped_at>>

\* Line 152 with the colour of line 149.
MarkDisconnectedAsConnected ==
  /\ CheckerAt("L152")
  /\ status_colors' = [status_colors EXCEPT ![Nodes[checker.i]] = Green]
  /\ checker' = [checker EXCEPT !.pc = "L153"]
  /\ UNCHANGED <<guiVars, outVars, after, execVars, running, status_labels, stopped_at>>

\* Line 152.
MarkDisconnected ==
  /\ CheckerAt("L152")
  /\ status_colors' = [status_colors EXCEPT ![Nodes[checker.i]] = Red]
  /\ checker' = [checker EXCEPT !.pc = "L153"]
  /\ UNCHANGED <<guiVars, outVars, after, execVars, running, status_labels, stopped_at>>

\* Line 153 without its root.after call.
PublishDisconnectedHeld ==
  /\ CheckerAt("L153")
  /\ checker' = NextNode(checker.i)
  /\ UNCHANGED <<guiVars, outVars, after, execVars, running, status_colors, status_labels,
                 stopped_at>>

\* Line 153.
PublishDisconnected ==
  /\ CheckerAt("L153")
  /\ Len(after) < MaxPending
  /\ after' = Append(after, Callback(0, 153, "label", LblDisconnected, Red, FALSE,
                                     Nodes[checker.i]))
  /\ checker' = [NextNode(checker.i) EXCEPT !.published = @ \cup {Nodes[checker.i]}]
  /\ UNCHANGED <<guiVars, outVars, execVars, running, status_colors, status_labels,
                 stopped_at>>

\* Line 154.
Sleep ==
  /\ CheckerAt("L154")
  /\ checker' = [checker EXCEPT !.pc = "L142"]
  /\ UNCHANGED <<guiVars, outVars, after, execVars, running, status_colors, status_labels,
                 stopped_at>>

CheckerStep ==
  \/ TestRunning \/ ProbeStart \/ ProbeEnd
  \/ MarkConnected \/ PublishConnected \/ ProbeClose
  \/ ProbeCloseRaising \/ MarkDisconnected \/ PublishDisconnected
  \/ Sleep

\* cleanup (lines 306-308), run when the window is closed (line 313). The
\* end of the process that follows root.destroy() cuts a behaviour short and
\* adds no step of its own.
cleanup ==
  /\ running
  /\ running' = FALSE
  /\ stopped_at' = checker.i
  /\ UNCHANGED <<guiVars, outVars, after, execVars, checker, status_colors, status_labels>>

----------------------------------------------------------------------------
(* Specifications. The execution threads and the status checker share no   *)
(* state but the callback queue, whose callbacks write disjoint widgets,   *)
(* so each is explored with the main loop on its own.                      *)

\* The first Execute click.
FirstExecute == started = 0 /\ execute

\* The user interface and one command execution, with the user editing the
\* form at any moment of it.
Next ==
  \/ \E r \in DOMAIN node_configs : update_node_ip(r)
  \/ \E k \in 1..Len(operations) : SelectOperation(k)
  \/ \E t \in TypedJson : TypeData(t)
  \/ \E t \in TypedJson : TypeCondition(t)
  \/ FirstExecute
  \/ RunCallback
  \/ \E w \in Threads : ThreadStep(w)

Spec == Init /\ [][Next]_vars

\* Forms the user may have left before clicking Execute twice: the initial
\* one, a search on a slave, an insert whose data is malformed.
ConcurrentForms ==
  {[role |-> "Master", op |-> CREATE_DB, data |-> <<>>, cond |-> <<>>],
   [role |-> "Slave 1", op |-> SEARCH, data |-> <<>>, cond |-> DefaultCond],
   [role |-> "Master", op |-> INSERT, data |-> TxtBrace, cond |-> <<>>]}

ConcurrentInit ==
  \E f \in ConcurrentForms :
    /\ node_type = f.role
    /\ node_ip_port = node_configs[f.role]
    /\ operation = f.op
    /\ operations = OperationsFor("Master")
    /\ packed = FieldsShown(f.op)
    /\ database = DefaultDb
    /\ table = IF "table" \in FieldsShown(f.op) THEN DefaultTable ELSE <<>>
    /\ data = f.data
    /\ condition = f.cond
    /\ status = [text |-> <<>>, fg |-> Green]
    /\ result = <<>>
    /\ dialog = <<>>
    /\ after = <<>>
    /\ thread = [w \in Threads |-> NewThread]
    /\ started = 0
    /\ sockets = 0
    /\ edits = 0
    /\ running = TRUE
    /\ checker = NewChecker
    /\ status_colors = [n \in DOMAIN node_configs |-> Orange]
    /\ status_labels = [n \in DOMAIN node_configs |-> [text |-> LblChecking, fg |-> Orange]]
    /\ stopped_at = 0

\* Execute clicked while an earlier execution is still in flight; the form
\* is left alone.
ConcurrentNext ==
  \/ execute
  \/ RunCallback
  \/ \E w \in Threads : ThreadStep(w)

ConcurrentSpec == ConcurrentInit /\ [][ConcurrentNext]_vars

\* One execution with the time its socket calls block counted unit by unit.
TimedNext ==
  \/ FirstExecute
  \/ RunCallback
  \/ \E w \in Threads : ThreadStep(w)
  \/ \E w \in Threads : Tick(w)

TimedSpec == ConcurrentInit /\ [][TimedNext]_vars

\* The status checker, the main loop running its callbacks, and the stop.
MonitorNext ==
  \/ CheckerStep
  \/ cleanup
  \/ RunCallback

MonitorSpec == Init /\ [][MonitorNext]_vars

\* The same with its scheduling: the checker thread is a thread of the
\* process, so it runs whenever it can (connect returns or raises within its
\* timeout of line 147 and the sleep of line 154 ends), and the main loop of
\* line 314 runs the callbacks it is given. Closing the window is up to the
\* user.
MonitorFairSpec ==
  Init /\ [][MonitorNext]_vars /\ WF_vars(CheckerStep) /\ WF_vars(RunCallback)

----------------------------------------------------------------------------
(* Properties.                                                             *)

\* Thread w has ended and every callback it handed over has run.
Finished(w) ==
  /\ thread[w].pc = "done"
  /\ \A j \in 1..Len(after) : after[j].w # w

\* The events of kind ev in the io log of thread w.
Events(w, ev) == {j \in 1..Len(thread[w].io) : thread[w].io[j].ev = ev}

\* The value stored under key in a parsed JSON object.
Member(obj, key) ==
  LET j == CHOOSE j \in 1..Len(obj.m) : obj.m[j].key = key IN obj.m[j].val

\* An entry text the thread has read that is non-empty and no JSON.
BadText(t) == t # NoText /\ t # <<>> /\ ~JsonLoads(t).ok

\* Both entries were read and parsed: the execution passed validation.
Validated(w) ==
  /\ thread[w].data_str # NoText /\ ~BadText(thread[w].data_str)
  /\ thread[w].cond_str # NoText /\ ~BadText(thread[w].cond_str)

\* recv returned a payload to thread w.
Received(w) == \E j \in Events(w, "recv") : thread[w].io[j].ok

\* A socket call of thread w raised.
NetworkFailed(w) == \E j \in 1..Len(thread[w].io) : ~thread[w].io[j].ok

\* C1: an execution whose data or condition text is non-empty and does not
\* parse as JSON creates no socket, sends and receives nothing, and ends with
\* the status 'Error: Invalid JSON'.
C1_InvalidJsonNoNetwork ==
  \A w \in Threads :
    (BadText(thread[w].data_str) \/ BadText(thread[w].cond_str)) =>
      /\ thread[w].io = <<>>
      /\ thread[w].s = 0
      /\ thread[w].pc \in {"L274", "L275", "L276", "done"}
      /\ Finished(w) =>
           /\ thread[w].shown_status = StInvalidJson
           /\ status = [text |-> StInvalidJson, fg |-> Red]

\* C1 witness: an execution that read a malformed condition (after a data
\* text that parsed) has ended and its callbacks have run.
C1_Witness ==
  \E w \in Threads :
    /\ Finished(w)
    /\ thread[w].data_str # NoText
    /\ BadText(thread[w].cond_str)

\* C2: DROP_DB is among the operations offered exactly when the selected
\* role is "Master", and the six other operations are always offered.
C2_DropOfferedIffMaster ==
  /\ (\E k \in 1..Len(operations) : operations[k] = DROP_DB) <=> (node_type = "Master")
  /\ \A op \in {CREATE_DB, CREATE_TABLE, INSERT, UPDATE, DELETE, SEARCH} :
       \E k \in 1..Len(operations) : operations[k] = op

\* C3: no command whose Type is DROP_DB is sent to the address of a node
\* other than the Master.
C3_NoDropToSlave ==
  \A w \in Threads : \A j \in Events(w, "send") :
    Member(JsonLoads(thread[w].io[j].bytes).v, KeyType) = JStr(DROP_DB)
      => thread[w].io[j].addr = node_configs["Master"]

\* C4: in every command sent, Data and Condition are JSON objects.
C4_WireMappings ==
  \A w \in Threads : \A j \in Events(w, "send") :
    LET cmd == JsonLoads(thread[w].io[j].bytes)
    IN  /\ cmd.ok
        /\ Member(cmd.v, KeyData).k = "obj"
        /\ Member(cmd.v, KeyCondition).k = "obj"

\* C5: once cleanup has run, the only probe in flight is that of the node
\* the checker was at; no later node of the sweep is probed.
C5_NoProbeAfterStop ==
  (~running /\ checker.sock = "open") => checker.i = stopped_at

\* Status texts that report a socket error (line 302).
NetworkFailureTexts ==
  {StError \o err : err \in ConnectErrors \cup SendErrors \cup RecvErrors}

\* C6: an execution whose peer accepted the connection and closed it without
\* sending a byte (recv returned nothing) is reported as a network failure.
C6_PeerCloseIsFailure ==
  \A w \in Threads :
    (/\ Finished(w)
     /\ \E j \in Events(w, "recv") : thread[w].io[j].ok /\ thread[w].io[j].bytes = <<>>)
      => thread[w].shown_status \in NetworkFailureTexts

\* C7: an execution whose connect, send or receive raised ends with the
\* status and the result display showing the error and its detail, after a
\* single connection attempt.
C7_FailureReported ==
  \A w \in Threads :
    (Finished(w) /\ NetworkFailed(w)) =>
      /\ status.text # StProcessing
      /\ status = [text |-> StError \o thread[w].e, fg |-> Red]
      /\ result = StError \o thread[w].e
      /\ Cardinality(Events(w, "connect")) = 1

\* C8: a SEARCH response that parses is shown as the structured value it
\* denotes, with the status 'SEARCH completed'; one that does not parse is
\* shown as received, with the failure status; a leading "Error" changes
\* neither.
C8_SearchInterpretation ==
  \A w \in Threads :
    (Finished(w) /\ Received(w) /\ thread[w].op.Type = SEARCH) =>
      LET payload == JsonLoads(thread[w].data)
          shown == JsonLoads(thread[w].shown_result)
      IN  IF payload.ok
            THEN /\ shown.ok /\ shown.v = payload.v
                 /\ thread[w].shown_status = StSearchDone
                 /\ status = [text |-> StSearchDone, fg |-> Green]
            ELSE /\ thread[w].shown_result = thread[w].data
                 /\ thread[w].shown_status = StSearchBad
                 /\ status = [text |-> StSearchBad, fg |-> Red]

\* C8 witness: a SEARCH that received rows has ended, and the text shown is
\* not the text received.
C8_Witness ==
  \E w \in Threads :
    /\ Finished(w) /\ Received(w) /\ thread[w].op.Type = SEARCH
    /\ thread[w].data = RespRows
    /\ thread[w].shown_result # RespRows

\* C9: the response to any other operation is shown as received, with the
\* status 'Operation failed' exactly when it begins with "Error" and
\* 'Operation <Type> completed' otherwise.
C9_OtherInterpretation ==
  \A w \in Threads :
    (Finished(w) /\ Received(w) /\ thread[w].op.Type # SEARCH) =>
      /\ thread[w].shown_result = thread[w].data
      /\ result = thread[w].data
      /\ IF Len(thread[w].data) >= 5 /\ SubSeq(thread[w].data, 1, 5) = ErrorPrefix
           THEN status = [text |-> StOpFailed, fg |-> Red]
           ELSE status = [text |-> StOperation \o thread[w].op.Type \o StCompleted,
                          fg |-> Green]

\* C9 witness: an operation other than SEARCH received a server error.
C9_Witness ==
  \E w \in Threads :
    /\ Finished(w) /\ Received(w) /\ thread[w].op.Type # SEARCH
    /\ thread[w].data = RespError

\* C10: an execution that passed validation creates one socket, which is
\* closed when the thread ends; every socket call of the thread is made on
\* that socket, and no two executions share one.
C10_OneSocketClosed ==
  /\ \A w \in Threads :
       /\ Cardinality(Events(w, "socket")) <= 1
       /\ Cardinality(Events(w, "connect")) <= 1
       /\ \A j \in 1..Len(thread[w].io) : thread[w].io[j].s = thread[w].s
       /\ (thread[w].pc = "done" /\ Validated(w)) =>
            /\ Cardinality(Events(w, "socket")) = 1
            /\ Cardinality(Events(w, "close")) = 1
            /\ thread[w].io[1].ev = "socket"
            /\ thread[w].io[Len(thread[w].io)].ev = "close"
  /\ \A w1, w2 \in Threads :
       (w1 # w2 /\ thread[w1].s # 0 /\ thread[w2].s # 0) => thread[w1].s # thread[w2].s

\* C10 witness: two executions have ended, one after a socket error and one
\* after a response.
C10_Witness ==
  \E w1, w2 \in Threads :
    /\ thread[w1].pc = "done" /\ NetworkFailed(w1)
    /\ thread[w2].pc = "done" /\ Received(w2)

\* The probe of the j-th node of the current sweep is over and the loop has
\* left it.
Passed(j) ==
  \/ checker.pc = "L154"
  \/ checker.pc \in {"L146", "L148", "L149", "L150", "exit", "raise", "L152", "L153"}
       /\ j < checker.i

\* The health that the outcome of a probe stands for: reachable when the
\* connect returned, unreachable on any error.
HealthOf(outcome) == IF outcome = "ok" THEN Green ELSE Red

\* The label text that goes with a health.
LabelOf(color) == IF color = Green THEN LblConnected ELSE LblDisconnected

\* C11: once the sweep has left a node, the node's health is the outcome of
\* its probe in this sweep, reachable when the connect returned and
\* unreachable on any error, a timeout included; so after a sweep in which
\* one node accepted and two refused exactly one node is reachable and two
\* are unreachable, and the labels say so once the main loop has run the
\* updates; the probe socket is open only between the connect of a probe and
\* the end of its with block.
C11_SweepHealth ==
  /\ \A j \in 1..Len(Nodes) :
       Passed(j) =>
         /\ checker.outcome[Nodes[j]] # "none"
         /\ status_colors[Nodes[j]] = HealthOf(checker.outcome[Nodes[j]])
  /\ (/\ checker.pc = "L154"
      /\ Cardinality({n \in DOMAIN node_configs : checker.outcome[n] = "ok"}) = 1
      /\ Cardinality({n \in DOMAIN node_configs : checker.outcome[n] = "refused"}) = 2) =>
        /\ Cardinality({n \in DOMAIN node_configs : status_colors[n] = Green}) = 1
        /\ Cardinality({n \in DOMAIN node_configs : status_colors[n] = Red}) = 2
  /\ (checker.pc = "L154" /\ after = <<>>) =>
        \A n \in DOMAIN node_configs :
          /\ status_labels[n].text = LabelOf(HealthOf(checker.outcome[n]))
          /\ status_labels[n].fg = HealthOf(checker.outcome[n])
  /\ checker.sock = "open" => checker.pc \in {"L148", "L149", "L150", "exit", "raise"}
  /\ checker.pc \in {"L152", "L153", "L154"} => checker.sock = "closed"

\* C11 witness: a sweep has ended in which the master accepted and both
\* slaves refused, and the main loop has run its three updates.
C11_Witness ==
  /\ checker.pc = "L154" /\ after = <<>>
  /\ checker.outcome["Master"] = "ok"
  /\ checker.outcome["Slave 1"] = "refused"
  /\ checker.outcome["Slave 2"] = "refused"
  /\ status_labels["Master"].text = LblConnected
  /\ status_labels["Slave 2"].text = LblDisconnected

\* The update of node n with health h is in the hands of the main loop: it
\* waits in the queue of root.after, or the label shows it already.
HandedOver(n, h) ==
  \/ \E k \in 1..Len(after) :
       after[k].f = "label" /\ after[k].node = n /\ after[k].fg = h
  \/ status_labels[n] = [text |-> LabelOf(h), fg |-> h]

\* C17: within a sweep the health of a node is published as soon as its
\* probe is over: when the loop is at a later node, or at the sleep that ends
\* the sweep, the colour of every node it has left is written and the label
\* update of that node has been handed to root.after; while the probe of a
\* node is still to start nothing of this sweep is published for it.
C17_PublishedBeforeNextProbe ==
  \A j \in 1..Len(Nodes) :
    /\ Passed(j) =>
         /\ Nodes[j] \in checker.published
         /\ status_colors[Nodes[j]] = HealthOf(checker.outcome[Nodes[j]])
         /\ HandedOver(Nodes[j], HealthOf(checker.outcome[Nodes[j]]))
    /\ (checker.pc \in {"L146", "L148"} /\ j >= checker.i) =>
         Nodes[j] \notin checker.published

\* C17 witness: the probe of the second node is in flight while the update
\* of the first node, which failed, waits in the queue.
C17_Witness ==
  /\ checker.pc = "L148" /\ checker.i = 2
  /\ checker.outcome["Master"] = "timed out"
  /\ status_colors["Master"] = Red
  /\ \E k \in 1..Len(after) : after[k].node = "Master" /\ after[k].fg = Red

\* C18: the health of every node starts unknown (orange, 'Checking...');
\* the nodes that have a health entry are at every moment the nodes of the
\* registry; once the sweep has left a node its health is reachable or
\* unreachable, and a health or a label that has left unknown never comes
\* back to it.
C18_HealthNeverUnknownAgain ==
  /\ \A n \in DOMAIN node_configs :
       status_colors[n] = Orange /\ status_labels[n] = [text |-> LblChecking, fg |-> Orange]
  /\ [](/\ DOMAIN status_colors = DOMAIN node_configs
        /\ DOMAIN status_labels = DOMAIN node_configs
        /\ \A n \in DOMAIN node_configs : status_colors[n] \in {Orange, Green, Red}
        /\ \A j \in 1..Len(Nodes) : Passed(j) => status_colors[Nodes[j]] \in {Green, Red})
  /\ [][\A n \in DOMAIN node_configs :
          /\ status_colors[n] # Orange => status_colors'[n] \in {Green, Red}
          /\ status_labels[n].text # LblChecking =>
               /\ status_labels'[n].text \in {LblConnected, LblDisconnected}
               /\ status_labels'[n].fg \in {Green, Red}]_vars

\* C18 witness: a node that was shown connected has failed a later probe.
C18_Witness ==
  \E n \in DOMAIN node_configs :
    /\ status_labels[n].text = LblConnected
    /\ status_colors[n] = Red

\* The probe of node n is in flight.
Probing(n) == checker.pc = "L148" /\ Nodes[checker.i] = n

\* C13: the checker thread ends only after the monitor was stopped; a failed
\* probe is followed by the probe of the next node of the sweep, or by the
\* sleep after the last node; and as long as the monitor is not stopped
\* every node is probed again and again.
C13_PollingGoesOn ==
  /\ [](checker.pc = "done" => ~running)
  /\ [][(checker.pc = "L153" /\ checker'.pc # "L153") =>
          \/ checker.i < Len(Nodes) /\ checker'.pc = "L146" /\ checker'.i = checker.i + 1
          \/ checker.i = Len(Nodes) /\ checker'.pc = "L154"]_vars
  /\ \A n \in DOMAIN node_configs : []<>(~running \/ Probing(n))

\* C13 witness: a node whose probe failed in an earlier sweep is probed
\* again.
C13_Witness ==
  \E n \in DOMAIN node_configs :
    /\ running /\ Probing(n)
    /\ status_colors[n] = Red /\ status_labels[n].text = LblDisconnected

\* C12: whatever the role, the fields presented are those of the selected
\* operation: the database alone for CREATE_DB and DROP_DB; database, table
\* and data for CREATE_TABLE and INSERT; all four for UPDATE; database, table
\* and condition for DELETE and SEARCH.
C12_FieldsPresented ==
  /\ operation \in {CREATE_DB, DROP_DB, CREATE_TABLE, INSERT, UPDATE, DELETE, SEARCH}
  /\ operation \in {CREATE_DB, DROP_DB} => packed = {"database"}
  /\ operation \in {CREATE_TABLE, INSERT} => packed = {"database", "table", "data"}
  /\ operation = UPDATE => packed = {"database", "table", "data", "condition"}
  /\ operation \in {DELETE, SEARCH} => packed = {"database", "table", "condition"}

\* C12 witness: SEARCH was selected and a slave is the selected role.
C12_Witness ==
  /\ node_type = "Slave 2"
  /\ operation = SEARCH
  /\ packed = {"database", "table", "condition"}

\* The fields the table of the specification requires for a command type.
RequiredOf(type) ==
  IF type \in {CREATE_DB, DROP_DB} THEN {KeyDatabase}
  ELSE IF type \in {CREATE_TABLE, INSERT} THEN {KeyDatabase, KeyTable, KeyData}
  ELSE IF type = UPDATE THEN {KeyDatabase, KeyTable, KeyData, KeyCondition}
  ELSE {KeyDatabase, KeyTable, KeyCondition}

\* C14: in every command sent, each of Database, Table, Data and Condition
\* that the command's Type does not require is empty (the empty string, the
\* empty object), whatever the user does to the form while the thread of the
\* execution reads it.
C14_StrayFieldsEmpty ==
  \A w \in Threads : \A j \in Events(w, "send") :
    LET cmd == JsonLoads(thread[w].io[j].bytes).v
        required == RequiredOf(Member(cmd, KeyType).s)
    IN  /\ KeyDatabase \notin required => Member(cmd, KeyDatabase) = JStr(<<>>)
        /\ KeyTable \notin required => Member(cmd, KeyTable) = JStr(<<>>)
        /\ KeyData \notin required => Member(cmd, KeyData) = JObj(<<>>)
        /\ KeyCondition \notin required => Member(cmd, KeyCondition) = JObj(<<>>)

\* The place of a socket call in an exchange.
StepRank(ev) ==
  CASE ev = "socket" -> 1
    [] ev = "connect" -> 2
    [] ev = "send" -> 3
    [] ev = "recv" -> 4
    [] ev = "close" -> 5

\* A peer that sends one byte more than a read takes.
LongPayload == [j \in 1..(RecvSize + 1) |-> "x"]
LongRead == Recv(LongPayload)

\* C16: the socket calls of an execution come in the order connect, send,
\* receive, close, each at most once: nothing is sent after the read and
\* there is no second read; the write carries the whole serialised command;
\* the read returns at most 4096 bytes, also when the peer has sent more;
\* after a call that raised only the close follows; an execution that
\* received a response has made exactly these calls.
C16_TransportOrder ==
  /\ \A w \in Threads :
       LET io == thread[w].io
       IN  /\ \A j \in 1..Len(io) :
                /\ j > 1 => StepRank(io[j - 1].ev) < StepRank(io[j].ev)
                /\ (j > 1 /\ ~io[j - 1].ok) => io[j].ev = "close"
                /\ j > 1 => (io[j].ev = "close" \/ StepRank(io[j].ev) = StepRank(io[j - 1].ev) + 1)
                /\ io[j].ev = "send" => io[j].bytes = JsonDumps(OpValue(thread[w].op), -1, 0)
                /\ io[j].ev = "recv" => Len(io[j].bytes) <= RecvSize
           /\ (thread[w].pc = "done" /\ Received(w)) =>
                [j \in 1..Len(io) |-> io[j].ev] = <<"socket", "connect", "send", "recv", "close">>
  /\ Len(LongRead) = RecvSize

\* C16 witness: an execution has ended after its read returned a response.
C16_Witness ==
  \E w \in Threads :
    /\ thread[w].pc = "done" /\ Received(w)
    /\ Len(thread[w].io) = 5
    /\ thread[w].data = RespRows

\* The addresses of the registry.
RegistryAddresses == {node_configs[n] : n \in DOMAIN node_configs}

\* C19: whatever roles were selected, the address the client holds is the
\* registry address of the selected role; every socket call of an execution
\* that names a peer names the one address the execution read, and that is
\* an address of the registry.
C19_TargetIsRegistryAddress ==
  /\ node_type \in DOMAIN node_configs
  /\ node_ip_port = node_configs[node_type]
  /\ \A w \in Threads : \A j \in 1..Len(thread[w].io) :
       thread[w].io[j].ev \in {"connect", "send", "recv"} =>
         /\ thread[w].io[j].addr = thread[w].addr
         /\ thread[w].io[j].addr \in RegistryAddresses

\* C19 witness: after two role selections a command went to the second
\* slave.
C19_Witness ==
  /\ node_type = "Slave 2" /\ edits = MaxEdits
  /\ \E w \in Threads : \E j \in Events(w, "send") :
       thread[w].io[j].ok /\ thread[w].io[j].addr = node_configs["Slave 2"]

\* C20: when two executions have both run to their end and each has
\* displayed a non-empty output, the result display holds the output of one
\* of them, neither empty nor both one after the other, and the status line
\* reports the outcome of that same execution.
C20_ResultsDoNotMix ==
  (\A w \in Threads :
     /\ Finished(w) /\ Received(w)
     /\ thread[w].shown_result \notin {NoText, <<>>}) =>
    \E w \in Threads :
      /\ result = thread[w].shown_result
      /\ status.text = thread[w].shown_status

\* C15: one timeout covers connect, send and receive together: counted from
\* the start of connect, the socket calls of an execution never block for
\* more than the timeout in all.
C15_SingleBudget ==
  \A w \in Threads : thread[w].elapsed <= SocketTimeout
====
